---- MODULE Spec2Model ----
(***************************************************************************)
(* Model of DailyDinchariyaApp (src/src/index.tsx): the task catalog       *)
(* parser, today's instance selection, the progress aggregation, the two   *)
(* checkbox handlers and the sheet loader.                                 *)
(*                                                                         *)
(* Text is modelled as sequences of one-character strings, so that slug    *)
(* and parseInt are computed character by character as the code does.      *)
(* A CSV response is modelled as the sequence of its lines after the       *)
(* header, each line already split into its trimmed, quote-stripped        *)
(* columns (index.tsx:163-164); timeStart and timeEnd are display-only     *)
(* and are left out.  currentPoints is a JavaScript double; the model      *)
(* keeps it exact by scaling every point value by SplitScale (for the      *)
(* point values and subtask counts used here the double arithmetic is      *)
(* exact as well).  The saved URL in localStorage and the loader status    *)
(* text are not modelled.  A click with an empty URL changes nothing and   *)
(* is not an action.                                                       *)
(***************************************************************************)
EXTENDS Integers, Sequences, FiniteSets, TLC

VARIABLES
  masterTasks,      \* this.masterTasks
  todayInstances,   \* this.todayInstances
  taskListEl,       \* the rendered task elements: the checked state of every checkbox
  allDoneVisible,   \* allDoneEl does not carry the class 'hidden'
  btnDisabled,      \* loadSheetBtnEl.disabled
  inFlight,         \* number of loadTasksFromUrl calls suspended at an await
  lastOp,           \* history: the handler that ran last
  lastResponse,     \* history: the lines of the response parsed since the last reset
  today,            \* history: the weekday generateTodayInstances read since the last reset
  reloaded          \* history: some load began while a catalog was loaded

vars == <<masterTasks, todayInstances, taskListEl, allDoneVisible, btnDisabled,
          inFlight, lastOp, lastResponse, today, reloaded>>

----------------------------------------------------------------------------
(* Bounds *)

MaxRows == 3

----------------------------------------------------------------------------
(* Text helpers *)

str_a == <<"a">>
str_A == <<"A", "!">>
str_b == <<"b">>
str_a_b == <<"a", " ", " ", "b">>
str_x == <<"x">>
str_X == <<"X">>
str_y == <<"y">>
Empty == <<>>

Digits == {"0", "1", "2", "3", "4", "5", "6", "7", "8", "9"}

DigitVal(c) ==
  CASE c = "0" -> 0 [] c = "1" -> 1 [] c = "2" -> 2 [] c = "3" -> 3 [] c = "4" -> 4
    [] c = "5" -> 5 [] c = "6" -> 6 [] c = "7" -> 7 [] c = "8" -> 8 [] c = "9" -> 9

\* String.prototype.toLowerCase on one character of the alphabet used here
LowerChar(c) ==
  CASE c = "A" -> "a" [] c = "B" -> "b" [] c = "X" -> "x" [] c = "Y" -> "y" [] OTHER -> c

IsSpace(c) == c \in {" ", "\t"}

IsSlugChar(c) == c \in {"a", "b", "x", "y", "_"} \cup Digits

RECURSIVE DropSpaces(_)
DropSpaces(s) ==
  IF s # <<>> /\ IsSpace(Head(s)) THEN DropSpaces(Tail(s)) ELSE s

\* replace(/\s+/g, '_')
RECURSIVE ReplaceSpaceRuns(_)
ReplaceSpaceRuns(s) ==
  IF s = <<>> THEN <<>>
  ELSE IF IsSpace(Head(s)) THEN <<"_">> \o ReplaceSpaceRuns(DropSpaces(s))
  ELSE <<Head(s)>> \o ReplaceSpaceRuns(Tail(s))

slug(s) ==
  SelectSeq(ReplaceSpaceRuns([i \in 1..Len(s) |-> LowerChar(s[i])]), IsSlugChar)

\* JavaScript numbers as far as the parser produces them
Num(n) == [kind |-> "number", val |-> n]
NaN == [kind |-> "NaN", val |-> 0]
Undefined == [kind |-> "undefined", val |-> 0]

RECURSIVE DigitPrefix(_)
DigitPrefix(s) ==
  IF s # <<>> /\ Head(s) \in Digits THEN <<Head(s)>> \o DigitPrefix(Tail(s)) ELSE <<>>

RECURSIVE DigitsValue(_, _)
DigitsValue(acc, ds) ==
  IF ds = <<>> THEN acc ELSE DigitsValue(10 * acc + DigitVal(Head(ds)), Tail(ds))

\* parseInt(s, 10): optional sign, then the longest prefix of digits; NaN without a digit
parseInt(s) ==
  LET t == DropSpaces(s)
      signed == t # <<>> /\ Head(t) \in {"-", "+"}
      ds == DigitPrefix(IF signed THEN Tail(t) ELSE t)
  IN IF ds = <<>> THEN NaN
     ELSE Num((IF signed /\ Head(t) = "-" THEN -1 ELSE 1) * DigitsValue(0, ds))

\* JavaScript truthiness of a number
Truthy(n) == n.kind = "number" /\ n.val # 0

----------------------------------------------------------------------------
(* The catalog parser *)

allDays == <<"Mon", "Tue", "Wed", "Thu", "Fri", "Sat", "Sun">>

Range(f) == {f[i] : i \in DOMAIN f}

\* String.prototype.toLowerCase on the day words used here
LowerWord(w) ==
  CASE w = "ALL" -> "all" [] w = "Weekend" -> "weekend" [] w = "Wed" -> "wed"
    [] w = "Sat" -> "sat" [] OTHER -> w

\* A column holds no comma (the line was split on commas), so the list form
\* split(',') yields the one word itself.
parseDays(dayStr) ==
  IF dayStr = "" \/ LowerWord(dayStr) = "all" THEN Range(allDays)
  ELSE IF LowerWord(dayStr) = "weekdays" THEN {"Mon", "Tue", "Wed", "Thu", "Fri"}
  ELSE IF LowerWord(dayStr) = "weekend" THEN {"Sat", "Sun"}
  ELSE {d \in {dayStr} : d \in Range(allDays)}

Line(blank, taskName, subtaskName, points, subPoints, daysOfWeek, activeStr) ==
  [blank |-> blank, taskName |-> taskName, subtaskName |-> subtaskName,
   points |-> points, subPoints |-> subPoints, daysOfWeek |-> daysOfWeek,
   activeStr |-> activeStr]

\* The lines a loaded sheet may hold: parent rows (the ids of "a" and "A!"
\* coincide) and subtask rows (the ids of "x" and "X" coincide).
Lines ==
  { Line(FALSE, str_a, Empty, <<"6">>, Empty, "", "TRUE"),
    Line(FALSE, str_A, str_x, <<"p">>, <<"4">>, "ALL", "TRUE"),
    Line(FALSE, str_a_b, Empty, <<"-", "5">>, Empty, "Weekend", "TRUE"),
    Line(FALSE, str_b, Empty, <<"3">>, Empty, "Wed", "true"),
    Line(FALSE, Empty, str_x, Empty, Empty, "", ""),
    Line(FALSE, Empty, str_X, <<"7">>, <<"4">>, "", ""),
    Line(FALSE, Empty, str_y, Empty, Empty, "", ""),
    Line(FALSE, Empty, str_y, Empty, <<"p">>, "", "") }

\* the responses of n lines
Responses(n) == [1..n -> Lines]

\* The lines the parser is exercised on alone: also a row with neither name,
\* a blank line, and number fields with trailing text or a sign.
ParserLines ==
  Lines \cup
  { Line(FALSE, Empty, Empty, <<"6">>, <<"4">>, "sat", "TRUE"),
    Line(TRUE, Empty, Empty, Empty, Empty, "", ""),
    Line(FALSE, str_b, str_y, <<"1", "2", "p">>, Empty, "weekdays", ""),
    Line(FALSE, Empty, str_x, Empty, <<"-", "2">>, "", "") }

ParserResponses(n) == [1..n -> ParserLines]

\* index.tsx:170-179; parseInt(points, 10) || 0
NewTask(line) ==
  [id |-> slug(line.taskName),
   name |-> line.taskName,
   points |-> IF Truthy(parseInt(line.points)) THEN parseInt(line.points).val ELSE 0,
   daysOfWeek |-> parseDays(line.daysOfWeek),
   subtasks |-> <<>>,
   active |-> line.activeStr = "TRUE"]

\* index.tsx:182-187; subPoints ? parseInt(subPoints, 10) : undefined
NewSubtask(currentTask, line) ==
  [id |-> slug(currentTask.name \o <<"_">> \o line.subtaskName),
   name |-> line.subtaskName,
   subPoints |-> IF line.subPoints # <<>> THEN parseInt(line.subPoints) ELSE Undefined]

\* ParseLines with the slip that a blank line forgets the current task
RECURSIVE ParseLinesBlankResets(_, _, _)
ParseLinesBlankResets(tasks, cur, lines) ==
  IF lines = <<>> THEN tasks
  ELSE LET line == Head(lines)
           rest == Tail(lines)
       IN IF line.blank THEN ParseLinesBlankResets(tasks, 0, rest)
          ELSE IF line.taskName # <<>>
            THEN ParseLinesBlankResets(Append(tasks, NewTask(line)), Len(tasks) + 1, rest)
          ELSE IF line.subtaskName # <<>> /\ cur # 0
            THEN ParseLinesBlankResets([tasks EXCEPT ![cur].subtasks =
                               Append(@, NewSubtask(tasks[cur], line))], cur, rest)
          ELSE ParseLinesBlankResets(tasks, cur, rest)

\* lines.forEach of parseMasterTasks; cur is the index in tasks of currentTask, 0 for null
RECURSIVE ParseLines(_, _, _)
ParseLines(tasks, cur, lines) ==
  IF lines = <<>> THEN tasks
  ELSE LET line == Head(lines)
           rest == Tail(lines)
       IN IF line.blank THEN ParseLines(tasks, cur, rest)
          ELSE IF line.taskName # <<>>
            THEN ParseLines(Append(tasks, NewTask(line)), Len(tasks) + 1, rest)
          ELSE IF line.subtaskName # <<>> /\ cur # 0
            THEN ParseLines([tasks EXCEPT ![cur].subtasks =
                               Append(@, NewSubtask(tasks[cur], line))], cur, rest)
          ELSE ParseLines(tasks, cur, rest)

\* parseMasterTasks pushes onto this.masterTasks; it does not reset it
parseMasterTasks(tasks, lines) == ParseLines(tasks, 0, lines)

----------------------------------------------------------------------------
(* Today's instances *)

\* the weekdays the clock is sampled at
Todays == {"Wed", "Sat"}

\* isEligibleToday with the slip that the active flag is not read
isEligibleIgnoringActive(task, todayDay) == todayDay \in task.daysOfWeek

isEligibleToday(task, todayDay) ==
  IF ~task.active THEN FALSE ELSE todayDay \in task.daysOfWeek

SubIds(task) == {task.subtasks[j].id : j \in DOMAIN task.subtasks}

NewInstance(task) ==
  [id |-> task.id, task |-> task, completed |-> FALSE,
   subtaskCompletion |-> [key \in SubIds(task) |-> FALSE]]

generateTodayInstances(tasks, todayDay) ==
  LET eligible == SelectSeq(tasks, LAMBDA task : isEligibleToday(task, todayDay))
  IN [k \in 1..Len(eligible) |-> NewInstance(eligible[k])]

----------------------------------------------------------------------------
(* Progress *)

RECURSIVE Factorial(_)
Factorial(n) == IF n <= 1 THEN 1 ELSE n * Factorial(n - 1)

\* Every point value is kept multiplied by SplitScale, a common multiple of every
\* possible subtask count, so that points / subtasks.length stays an integer.
SplitScale == Factorial(MaxRows)

\* the sum of f[e] over e in S
RECURSIVE SumOver(_, _)
SumOver(S, f) ==
  IF S = {} THEN 0 ELSE LET e == CHOOSE e \in S : TRUE IN f[e] + SumOver(S \ {e}, f)

Min(a, b) == IF a <= b THEN a ELSE b

\* inst.subtaskCompletion[id], undefined (falsy) for a missing key
Flag(inst, id) == id \in DOMAIN inst.subtaskCompletion /\ inst.subtaskCompletion[id]

\* Object.values(inst.subtaskCompletion).filter(Boolean).length
completedCount(inst) ==
  Cardinality({key \in DOMAIN inst.subtaskCompletion : inst.subtaskCompletion[key]})

\* earnedSubPoints of one instance that is not completed and has subtasks, scaled
earnedSubPoints(inst) ==
  LET subs == inst.task.subtasks
      hasDefinedSubPoints == \E j \in DOMAIN subs : subs[j].subPoints.kind # "undefined"
  IN IF hasDefinedSubPoints
       THEN SplitScale * SumOver(DOMAIN subs, [j \in DOMAIN subs |->
              IF Flag(inst, subs[j].id) /\ Truthy(subs[j].subPoints)
                THEN subs[j].subPoints.val ELSE 0])
       ELSE completedCount(inst) * ((inst.task.points * SplitScale) \div Len(subs))

\* what the forEach of updateProgress adds to currentPoints for one instance, scaled
Earned(inst) ==
  IF inst.completed THEN inst.task.points * SplitScale
  ELSE IF Len(inst.task.subtasks) > 0
    THEN Min(earnedSubPoints(inst), inst.task.points * SplitScale)
  ELSE 0

currentPoints(insts) == SumOver(DOMAIN insts, [k \in DOMAIN insts |-> Earned(insts[k])])

totalPoints(insts) == SumOver(DOMAIN insts, [k \in DOMAIN insts |-> insts[k].task.points])

\* progressPercent === 1, progressPercent being currentPoints / totalPoints or 0
PercentIsOne(insts) ==
  totalPoints(insts) > 0 /\ currentPoints(insts) = totalPoints(insts) * SplitScale

\* the class of allDoneEl that updateProgress leaves
updateProgress(insts) == Len(insts) > 0 /\ PercentIsOne(insts)

----------------------------------------------------------------------------
(* Rendering *)

createTaskElement(inst) ==
  [taskChecked |-> inst.completed,
   subChecked |-> [j \in DOMAIN inst.task.subtasks |-> Flag(inst, inst.task.subtasks[j].id)]]

\* render(): the elements it leaves in taskListEl
RenderElements(insts) == [k \in DOMAIN insts |-> createTaskElement(insts[k])]

\* render() with the slip that the class written by its branch on the empty list
\* is not written again by updateProgress
RenderAllDoneBranchWins(tasks, insts) ==
  (Len(insts) = 0 /\ Len(tasks) > 0) \/ updateProgress(insts)

\* render(): the class of allDoneEl it leaves.  Its branch on the empty list
\* (index.tsx:266-270) writes the class first; updateProgress, called last
\* (index.tsx:275), writes it again whatever it was.
RenderAllDone(tasks, insts) == updateProgress(insts)

\* todayInstances.find(i => i.id === instanceId): its index, 0 when there is none
FindInstance(insts, instanceId) ==
  IF \E k \in DOMAIN insts : insts[k].id = instanceId
    THEN CHOOSE k \in DOMAIN insts :
           insts[k].id = instanceId /\ \A m \in 1..(k - 1) : insts[m].id # instanceId
    ELSE 0

\* rerenderInstance: querySelector finds the first element carrying the id
rerenderInstance(els, insts, found) ==
  IF found = 0 THEN els ELSE [els EXCEPT ![found] = createTaskElement(insts[found])]

handleTaskToggle(insts, instanceId, isChecked) ==
  LET found == FindInstance(insts, instanceId)
  IN IF found = 0 THEN insts
     ELSE [insts EXCEPT ![found].completed = isChecked,
                        ![found].subtaskCompletion = [key \in DOMAIN @ |-> isChecked]]

handleSubtaskToggle(insts, instanceId, subtaskId, isChecked) ==
  LET found == FindInstance(insts, instanceId)
  IN IF found = 0 THEN insts
     ELSE LET old == insts[found].subtaskCompletion
              new == [key \in DOMAIN old \cup {subtaskId} |->
                        IF key = subtaskId THEN isChecked ELSE old[key]]
          IN [insts EXCEPT ![found].subtaskCompletion = new,
                           ![found].completed = \A key \in DOMAIN new : new[key]]

----------------------------------------------------------------------------
(* The handlers *)

\* LoadBegin with the slip that the catalog is not reset
LoadBeginKeepsCatalog ==
  /\ masterTasks' = masterTasks
  /\ todayInstances' = <<>>
  /\ taskListEl' = RenderElements(<<>>)
  /\ allDoneVisible' = RenderAllDone(masterTasks, <<>>)
  /\ reloaded' = (reloaded \/ masterTasks # <<>>)
  /\ lastResponse' = <<>>
  /\ today' = ""

\* loadTasksFromUrl from its entry to getCsvUrl: the reset and the clearing render
LoadBegin ==
  /\ masterTasks' = <<>>
  /\ todayInstances' = <<>>
  /\ taskListEl' = RenderElements(<<>>)
  /\ allDoneVisible' = RenderAllDone(<<>>, <<>>)
  /\ reloaded' = (reloaded \/ masterTasks # <<>>)
  /\ lastResponse' = <<>>
  /\ today' = ""

\* State after construction: without a saved URL nothing has run (the class of
\* allDoneEl is the page's), with one loadTasksFromUrl has run to its first await.
Init ==
  /\ masterTasks = <<>>
  /\ todayInstances = <<>>
  /\ taskListEl = <<>>
  /\ lastResponse = <<>>
  /\ today = ""
  /\ reloaded = FALSE
  /\ \/ /\ allDoneVisible \in BOOLEAN
        /\ btnDisabled = FALSE
        /\ inFlight = 0
        /\ lastOp = "init"
     \/ /\ allDoneVisible = RenderAllDone(<<>>, <<>>)
        /\ btnDisabled = TRUE
        /\ inFlight = 1
        /\ lastOp = "loadBegin"

\* A click on the load button with a non-empty URL.  loadSheetBtnEl is an
\* HTMLButtonElement (index.tsx:51) and dispatches no click while setLoaderState
\* keeps it disabled (index.tsx:89).  urlOk: getCsvUrl returns; otherwise it
\* throws and the catch block runs in the same step.
handleLoadSheetClick(urlOk) ==
  /\ ~btnDisabled
  /\ LoadBegin
  /\ btnDisabled' = urlOk
  /\ inFlight' = IF urlOk THEN inFlight + 1 ELSE inFlight
  /\ lastOp' = (IF urlOk THEN "loadBegin" ELSE "loadRejected")

\* fetch and response.text() resolve with the lines csv; the clock reads todayDay
FetchSucceeds(csv, todayDay) ==
  /\ inFlight > 0
  /\ masterTasks' = parseMasterTasks(masterTasks, csv)
  /\ todayInstances' = generateTodayInstances(masterTasks', todayDay)
  /\ taskListEl' = RenderElements(todayInstances')
  /\ allDoneVisible' = RenderAllDone(masterTasks', todayInstances')
  /\ btnDisabled' = FALSE
  /\ inFlight' = inFlight - 1
  /\ lastOp' = "loaded"
  /\ lastResponse' = csv
  /\ today' = todayDay
  /\ UNCHANGED reloaded

\* fetch rejects or the response is not ok
FetchFails ==
  /\ inFlight > 0
  /\ btnDisabled' = FALSE
  /\ inFlight' = inFlight - 1
  /\ lastOp' = "loadFailed"
  /\ UNCHANGED <<masterTasks, todayInstances, taskListEl, allDoneVisible,
                 lastResponse, today, reloaded>>

\* The user flips the task checkbox of element k: its change listener runs
TaskCheckboxChange(k) ==
  LET isChecked == ~taskListEl[k].taskChecked
      clicked == [taskListEl EXCEPT ![k].taskChecked = isChecked]
      instanceId == todayInstances[k].id
  IN /\ todayInstances' = handleTaskToggle(todayInstances, instanceId, isChecked)
     /\ taskListEl' = rerenderInstance(clicked, todayInstances',
                                       FindInstance(todayInstances, instanceId))
     /\ allDoneVisible' = updateProgress(todayInstances')
     /\ lastOp' = "taskToggle"
     /\ UNCHANGED <<masterTasks, btnDisabled, inFlight, lastResponse, today, reloaded>>

\* The user flips the checkbox of subtask j of element k: its change listener runs
SubtaskCheckboxChange(k, j) ==
  LET isChecked == ~taskListEl[k].subChecked[j]
      clicked == [taskListEl EXCEPT ![k].subChecked[j] = isChecked]
      instanceId == todayInstances[k].id
      subtaskId == todayInstances[k].task.subtasks[j].id
  IN /\ todayInstances' =
          handleSubtaskToggle(todayInstances, instanceId, subtaskId, isChecked)
     /\ taskListEl' = rerenderInstance(clicked, todayInstances',
                                       FindInstance(todayInstances, instanceId))
     /\ allDoneVisible' = updateProgress(todayInstances')
     /\ lastOp' = "subtaskToggle"
     /\ UNCHANGED <<masterTasks, btnDisabled, inFlight, lastResponse, today, reloaded>>

Next ==
  \/ \E urlOk \in BOOLEAN : handleLoadSheetClick(urlOk)
  \/ /\ inFlight > 0
     /\ \E n \in 0..MaxRows : \E csv \in Responses(n), todayDay \in Todays :
          FetchSucceeds(csv, todayDay)
  \/ FetchFails
  \/ \E k \in DOMAIN taskListEl : TaskCheckboxChange(k)
  \/ \E k \in DOMAIN taskListEl : \E j \in DOMAIN taskListEl[k].subChecked :
       SubtaskCheckboxChange(k, j)

Spec == Init /\ [][Next]_vars

----------------------------------------------------------------------------
(* The parser alone: parseMasterTasks applied to an empty catalog *)

ParserInit ==
  /\ masterTasks = <<>>
  /\ todayInstances = <<>>
  /\ taskListEl = <<>>
  /\ allDoneVisible = FALSE
  /\ btnDisabled = TRUE
  /\ inFlight = 1
  /\ lastOp = "loadBegin"
  /\ lastResponse = <<>>
  /\ today = ""
  /\ reloaded = FALSE

ParseResponse(csv) ==
  /\ lastOp = "loadBegin"
  /\ masterTasks' = parseMasterTasks(masterTasks, csv)
  /\ lastOp' = "parsed"
  /\ lastResponse' = csv
  /\ UNCHANGED <<todayInstances, taskListEl, allDoneVisible, btnDisabled, inFlight,
                 today, reloaded>>

ParserNext ==
  /\ lastOp = "loadBegin"
  /\ \E n \in 0..MaxRows : \E csv \in ParserResponses(n) : ParseResponse(csv)

ParserSpec == ParserInit /\ [][ParserNext]_vars

----------------------------------------------------------------------------
(* Rows of a response, read independently of the parser *)

IsTaskRow(line) == ~line.blank /\ line.taskName # <<>>

IsSubtaskRow(line) == ~line.blank /\ line.taskName = <<>> /\ line.subtaskName # <<>>

TaskRows(csv) == {i \in DOMAIN csv : IsTaskRow(csv[i])}

\* the subtask rows between task row i and the next task row
SubRowsOf(csv, i) ==
  {m \in DOMAIN csv : /\ m > i
                      /\ IsSubtaskRow(csv[m])
                      /\ \A t \in TaskRows(csv) : t <= i \/ t > m}

\* the r-th smallest element of a set of numbers
NthOf(S, r) == CHOOSE i \in S : Cardinality({m \in S : m <= i}) = r

Eligible(tasks, todayDay) ==
  {i \in DOMAIN tasks : tasks[i].active /\ todayDay \in tasks[i].daysOfWeek}

AllEntries(inst, value) ==
  \A key \in DOMAIN inst.subtaskCompletion : inst.subtaskCompletion[key] = value

----------------------------------------------------------------------------
(* Claims *)

\* no two of today's instances carry the same id
UniqueInstanceIds ==
  \A k, m \in DOMAIN todayInstances :
    todayInstances[k].id = todayInstances[m].id => k = m

\* what the change of the checkbox of subtask j of instance k is to do to instance k
SubtaskToggled(k, j) ==
  LET checked == ~taskListEl[k].subChecked[j]
      id == todayInstances[k].task.subtasks[j].id
      before == todayInstances[k].subtaskCompletion
      after == todayInstances'[k].subtaskCompletion
  IN /\ id \in DOMAIN after
     /\ after[id] = checked
     /\ DOMAIN after \ {id} = DOMAIN before \ {id}
     /\ \A key \in DOMAIN before \ {id} : after[key] = before[key]
     /\ todayInstances'[k].completed = (\A key \in DOMAIN after : after[key])

\* C1: a change of the checkbox of subtask j of instance k to checked sets that
\* instance's subtaskCompletion entry of the subtask's id to checked, leaves its
\* other entries as they were, and leaves its completed flag equal to the AND of
\* all its entries.
C1_SubtaskToggleContract ==
  [][\A k \in DOMAIN taskListEl : \A j \in DOMAIN taskListEl[k].subChecked :
       SubtaskCheckboxChange(k, j) => SubtaskToggled(k, j)]_vars

\* the same, only for lists in which no two instances carry the same id
C1_HoldsForUniqueIds ==
  [][\A k \in DOMAIN taskListEl : \A j \in DOMAIN taskListEl[k].subChecked :
       UniqueInstanceIds /\ SubtaskCheckboxChange(k, j) => SubtaskToggled(k, j)]_vars

\* what the change of the task checkbox of instance k is to do to instance k
TaskToggled(k) ==
  LET checked == ~taskListEl[k].taskChecked
  IN /\ todayInstances'[k].completed = checked
     /\ AllEntries(todayInstances'[k], checked)

\* C2: a change of the task checkbox of instance k to checked leaves that
\* instance's completed flag and every entry of its subtaskCompletion equal to
\* checked.
C2_TaskToggleContract ==
  [][\A k \in DOMAIN taskListEl : TaskCheckboxChange(k) => TaskToggled(k)]_vars

\* the same, only for lists in which no two instances carry the same id
C2_HoldsForUniqueIds ==
  [][\A k \in DOMAIN taskListEl :
       UniqueInstanceIds /\ TaskCheckboxChange(k) => TaskToggled(k)]_vars

\* C3: in every state the keys of every instance's subtaskCompletion are exactly
\* the ids of its task's subtasks, each key the id of exactly one subtask.
C3_KeysMatchSubtasks ==
  \A k \in DOMAIN todayInstances :
    LET inst == todayInstances[k]
        subs == inst.task.subtasks
    IN /\ DOMAIN inst.subtaskCompletion = SubIds(inst.task)
       /\ \A key \in DOMAIN inst.subtaskCompletion :
            Cardinality({j \in DOMAIN subs : subs[j].id = key}) = 1

\* every instance without subtasks, and every instance other than k, stays as it was
OnlyOwnerMutated(k) ==
  \A m \in DOMAIN todayInstances :
    (Len(todayInstances[m].task.subtasks) = 0 \/ m # k)
      => todayInstances'[m] = todayInstances[m]

\* C4: a change of a subtask checkbox of instance k leaves every instance without
\* subtasks, and every instance other than k, as it was.
C4_SubtaskToggleFrame ==
  [][\A k \in DOMAIN taskListEl : \A j \in DOMAIN taskListEl[k].subChecked :
       SubtaskCheckboxChange(k, j) => OnlyOwnerMutated(k)]_vars

\* the same, only for lists in which no two instances carry the same id
C4_HoldsForUniqueIds ==
  [][\A k \in DOMAIN taskListEl : \A j \in DOMAIN taskListEl[k].subChecked :
       UniqueInstanceIds /\ SubtaskCheckboxChange(k, j) => OnlyOwnerMutated(k)]_vars

\* C5: in every state each instance's earned contribution is at most its task's
\* points, currentPoints is at most totalPoints and percent is at most 1.
C5_EarnedWithinPoints ==
  /\ \A k \in DOMAIN todayInstances :
       Earned(todayInstances[k]) <= todayInstances[k].task.points * SplitScale
  /\ currentPoints(todayInstances) <= totalPoints(todayInstances) * SplitScale
  /\ totalPoints(todayInstances) > 0
       => currentPoints(todayInstances) <= totalPoints(todayInstances) * SplitScale

C8_Selection ==
  LET E == Eligible(masterTasks, today)
  IN /\ Len(todayInstances) = Cardinality(E)
     /\ \A r \in DOMAIN todayInstances :
          /\ todayInstances[r].task = masterTasks[NthOf(E, r)]
          /\ todayInstances[r].id = masterTasks[NthOf(E, r)].id
     /\ \A i \in DOMAIN masterTasks :
          ~masterTasks[i].active =>
            \A r \in DOMAIN todayInstances : NthOf(E, r) # i
     /\ lastOp = "loaded" =>
          \A r \in DOMAIN todayInstances :
            ~todayInstances[r].completed /\ AllEntries(todayInstances[r], FALSE)

\* after a toggle: an inactive task recurring today and a task not recurring today
\* are in the catalog without an instance, beside a task that has one
C8_Witness ==
  /\ lastOp \in {"taskToggle", "subtaskToggle"}
  /\ \E i \in DOMAIN masterTasks :
       ~masterTasks[i].active /\ today \in masterTasks[i].daysOfWeek
  /\ \E i \in DOMAIN masterTasks :
       masterTasks[i].active /\ today \notin masterTasks[i].daysOfWeek
  /\ Len(todayInstances) = 1

\* C9: the parse of a response holds one task per row with a task name, in row
\* order, and the subtasks of each are the rows with only a subtask name between
\* its row and the next task row, in row order; every other row is skipped.
C9_ParserGrouping ==
  lastOp = "parsed" =>
    LET csv == lastResponse
        T == TaskRows(csv)
    IN /\ Len(masterTasks) = Cardinality(T)
       /\ \A r \in DOMAIN masterTasks :
            LET i == NthOf(T, r)
                S == SubRowsOf(csv, i)
                subs == masterTasks[r].subtasks
            IN /\ masterTasks[r].name = csv[i].taskName
               /\ masterTasks[r].id = slug(csv[i].taskName)
               /\ Len(subs) = Cardinality(S)
               /\ \A q \in DOMAIN subs :
                    /\ subs[q].name = csv[NthOf(S, q)].subtaskName
                    /\ subs[q].id =
                         slug(csv[i].taskName \o <<"_">> \o csv[NthOf(S, q)].subtaskName)

\* a parse that skipped a subtask row before any task row and a blank line, and
\* attached a subtask row to a task
C9_Witness ==
  /\ lastOp = "parsed"
  /\ Len(lastResponse) = 3
  /\ \/ IsSubtaskRow(lastResponse[1])
     \/ lastResponse[2].blank
  /\ Len(masterTasks) = 1
  /\ Len(masterTasks[1].subtasks) = 1

\* C10: a subtask row whose sub-points field is empty or does not parse as an
\* integer yields a subtask with subPoints undefined, and a not completed instance
\* all of whose subtasks come from such rows earns the equal split.
C10_UnparsableSubPointsUndefined ==
  lastOp = "loaded" =>
    /\ \A r \in DOMAIN masterTasks :
         LET S == SubRowsOf(lastResponse, NthOf(TaskRows(lastResponse), r))
         IN \A q \in DOMAIN masterTasks[r].subtasks :
              LET field == lastResponse[NthOf(S, q)].subPoints
              IN (field = <<>> \/ parseInt(field) = NaN)
                   => masterTasks[r].subtasks[q].subPoints = Undefined
    /\ \A k \in DOMAIN todayInstances :
         LET inst == todayInstances[k]
             subs == inst.task.subtasks
         IN (/\ ~inst.completed
             /\ Len(subs) > 0
             /\ \A j \in DOMAIN subs : subs[j].subPoints.kind # "number")
              => Earned(inst) =
                   completedCount(inst) * ((inst.task.points * SplitScale) \div Len(subs))

====
